---- MODULE Spec2Model ----
(***************************************************************************)
(* Model of stream_breathing_amp_multi.py: a BLE breathing belt bridged to *)
(* an LSL outlet.  The state is the BBeltBleak session record, the BLE     *)
(* client as the program sees it, the LSL outlet and the position of the   *)
(* __main__ script; the actions are the steps of __main__, launch/_main,   *)
(* the notification handler and terminate.                                 *)
(*                                                                         *)
(* Calls into bleak (connect, start_notify, stop_notify, disconnect) are   *)
(* external: each either returns or raises an Exception, chosen            *)
(* nondeterministically.  A signal (SIGINT/SIGTERM, both bound to          *)
(* default_int_handler) raises KeyboardInterrupt at the point where the    *)
(* script is blocked.                                                      *)
(***************************************************************************)
EXTENDS Integers, Sequences, FiniteSets, TLC

\* Longest history of notifications and diagnostic ticks explored.
MaxEvents == 3

\* period of the diagnostic sleep, and divisor of the reported rate
TICK_SECONDS == 5

\* Payloads the transport delivers.  The leading byte stays below 128 so
\* that every decoded value fits the checker's integers.
Payloads ==
  { <<>>,
    <<1, 2>>,
    <<0, 0, 0, 5>>,
    <<0, 0, 0, 3>>,
    <<1, 2, 3, 4, 5, 6, 7>>,
    <<0, 0, 0, 5, 0, 0, 0, 7>>,
    <<0, 0, 0, 1, 0, 0, 0, 2>>,
    <<127, 255, 255, 255, 0, 0, 1, 0, 9>> }

Outcomes == {"ok", "error"}

VARIABLES
  pc,          \* position of the __main__ script
  connected,   \* self.client.is_connected
  subscribed,  \* _ble_handler is registered with the client for char_id
  bamp,        \* self.bamp
  bIR,         \* self.bIR
  samples_in,  \* self.samples_in
  callback,    \* self.callback
  verbose,     \* args.verbose
  outlet,      \* arguments of the push_sample calls made on outlet_bamp
  outletOpen,  \* outlet_bamp still exists
  log,         \* kinds of message printed so far
  lastReport,  \* rate last printed by the loop, in mHz; -1 before any
  calls,       \* how often each client method was invoked
  signals,     \* positions at which a signal was delivered
  events       \* notifications and ticks that took place, in order

vars == <<pc, connected, subscribed, bamp, bIR, samples_in, callback, verbose,
          outlet, outletOpen, log, lastReport, calls, signals, events>>

\* struct.unpack('>L', b)[0] for a 4-byte b
unpack_BE_mut(b) == b[4] * 16777216 + b[3] * 65536 + b[2] * 256 + b[1]

unpack_BE(b) == b[1] * 16777216 + b[2] * 65536 + b[3] * 256 + b[4]

\* outlet_bamp.push_sample(data)
stream_mut(data) == outlet

stream(data) == Append(outlet, data)

\* self.samples_in/5. , kept exact by expressing it in mHz
rate(n) == (n * 1000) \div TICK_SECONDS

ble_handler_mut(data) ==
  /\ samples_in' = samples_in + 1
  /\ IF Len(data) >= 4
       THEN /\ bamp' = unpack_BE(SubSeq(data, 1, 4))
            /\ bIR' = IF Len(data) >= 8 THEN unpack_BE(SubSeq(data, 5, 8)) ELSE bIR
            /\ log' = IF verbose THEN log \cup {"sample"} ELSE log
            /\ outlet' = IF callback # "None" THEN stream(<<bamp', bIR'>>) ELSE outlet
       ELSE UNCHANGED <<bamp, bIR, log, outlet>>

ble_handler(data) ==
  IF Len(data) >= 4
    THEN /\ bamp' = unpack_BE(SubSeq(data, 1, 4))
         /\ bIR' = IF Len(data) >= 8 THEN unpack_BE(SubSeq(data, 5, 8)) ELSE bIR
         /\ samples_in' = samples_in + 1
         /\ log' = IF verbose THEN log \cup {"sample"} ELSE log
         /\ outlet' = IF callback # "None" THEN stream(<<bamp', bIR'>>) ELSE outlet
    ELSE UNCHANGED <<bamp, bIR, samples_in, log, outlet>>

Init ==
  /\ pc = "connect"
  /\ connected = FALSE
  /\ subscribed = FALSE
  /\ bamp = 0
  /\ bIR = 0
  /\ samples_in = 0
  /\ callback = "stream"
  /\ verbose \in BOOLEAN
  /\ outlet = <<>>
  /\ outletOpen = TRUE
  /\ log = {}
  /\ lastReport = -1
  /\ calls = [m \in {"connect", "start_notify", "stop_notify", "disconnect"} |-> 0]
  /\ signals = <<>>
  /\ events = <<>>

Called(m) == calls' = [calls EXCEPT ![m] = @ + 1]

\* launch() -> _main() -> connect()
Connect(outcome) ==
  /\ pc = "connect"
  /\ IF ~connected
       THEN /\ Called("connect")
            /\ IF outcome = "ok"
                 THEN /\ connected' = TRUE
                      /\ log' = log \cup {"Connecting", "Connected"}
                 ELSE /\ connected' = connected
                      /\ log' = log \cup {"Connecting", "e:connect"}
       ELSE UNCHANGED <<calls, connected, log>>
  /\ pc' = "start_notify"
  /\ UNCHANGED <<subscribed, bamp, bIR, samples_in, callback, verbose, outlet,
                 outletOpen, lastReport, signals, events>>

\* what client.start_notify can do: a client that is not connected cannot
\* subscribe
StartNotifyOutcomes == IF connected THEN Outcomes ELSE {"error"}

\* _main(): the start_notify call and, when it raises, the except clause,
\* after which _main and launch return and the finally clause starts
StartNotify_mut(outcome) ==
  /\ pc = "start_notify"
  /\ outcome \in StartNotifyOutcomes
  /\ Called("start_notify")
  /\ IF outcome = "ok"
       THEN /\ subscribed' = TRUE
            /\ log' = log \cup {"start notify", "notify started", "launch the loop"}
            /\ pc' = "loop"
       ELSE /\ subscribed' = subscribed
            /\ log' = log \cup {"start notify"}
            /\ pc' = "terminate"
  /\ UNCHANGED <<connected, bamp, bIR, samples_in, callback, verbose, outlet,
                 outletOpen, lastReport, signals, events>>

StartNotify(outcome) ==
  /\ pc = "start_notify"
  /\ outcome \in StartNotifyOutcomes
  /\ Called("start_notify")
  /\ IF outcome = "ok"
       THEN /\ subscribed' = TRUE
            /\ log' = log \cup {"start notify", "notify started", "launch the loop"}
            /\ pc' = "loop"
       ELSE /\ subscribed' = subscribed
            /\ log' = log \cup {"start notify", "e:main"}
            /\ pc' = "terminate"
  /\ UNCHANGED <<connected, bamp, bIR, samples_in, callback, verbose, outlet,
                 outletOpen, lastReport, signals, events>>

\* the transport delivers a notification while _main sleeps in its loop
Notify(data) ==
  /\ pc = "loop"
  /\ subscribed
  /\ Len(events) < MaxEvents
  /\ ble_handler(data)
  /\ events' = Append(events, [kind |-> "notify", data |-> data])
  /\ UNCHANGED <<pc, connected, subscribed, callback, verbose, outletOpen,
                 lastReport, calls, signals>>

\* one turn of the while loop of _main, after the sleep
Tick_noreset ==
  /\ pc = "loop"
  /\ Len(events) < MaxEvents
  /\ lastReport' = rate(samples_in)
  /\ log' = log \cup {"Samples incoming"}
  /\ events' = Append(events, [kind |-> "tick", data |-> <<>>])
  /\ UNCHANGED <<pc, connected, subscribed, bamp, bIR, samples_in, callback, verbose,
                 outlet, outletOpen, calls, signals>>

Tick_resetIR ==
  /\ pc = "loop"
  /\ Len(events) < MaxEvents
  /\ lastReport' = rate(samples_in)
  /\ samples_in' = 0
  /\ bIR' = 0
  /\ log' = log \cup {"Samples incoming"}
  /\ events' = Append(events, [kind |-> "tick", data |-> <<>>])
  /\ UNCHANGED <<pc, connected, subscribed, bamp, callback, verbose,
                 outlet, outletOpen, calls, signals>>

Tick ==
  /\ pc = "loop"
  /\ Len(events) < MaxEvents
  /\ lastReport' = rate(samples_in)
  /\ samples_in' = 0
  /\ log' = log \cup {"Samples incoming"}
  /\ events' = Append(events, [kind |-> "tick", data |-> <<>>])
  /\ UNCHANGED <<pc, connected, subscribed, bamp, bIR, callback, verbose,
                 outlet, outletOpen, calls, signals>>

LaunchPcs == {"connect", "start_notify", "loop"}
TeardownPcs == {"terminate", "term_disc"}
ExitPcs == {"done", "crashed"}

\* SIGINT or SIGTERM while launch() is blocked: KeyboardInterrupt leaves
\* _main (no except clause there catches it), __main__ catches it and goes on
\* to the finally clause.  A connect that is interrupted may or may not have
\* established the link.
Interrupt ==
  /\ pc \in LaunchPcs
  /\ signals' = Append(signals, pc)
  /\ log' = log \cup {"bye"}
  /\ connected' \in (IF pc = "connect" THEN BOOLEAN ELSE {connected})
  /\ pc' = "terminate"
  /\ UNCHANGED <<subscribed, bamp, bIR, samples_in, callback, verbose, outlet,
                 outletOpen, lastReport, calls, events>>

\* a signal while terminate() is blocked: KeyboardInterrupt is not an
\* Exception, so it leaves terminate() and the finally clause
InterruptTeardown ==
  /\ pc \in TeardownPcs
  /\ signals' = Append(signals, pc)
  /\ pc' = "crashed"
  /\ UNCHANGED <<connected, subscribed, bamp, bIR, samples_in, callback, verbose,
                 outlet, outletOpen, log, lastReport, calls, events>>

\* terminate() -> _terminate(): the stop_notify call; when it raises, the
\* except clause of terminate()
TermStop_mut(outcome) ==
  /\ pc = "terminate"
  /\ Called("stop_notify")
  /\ IF outcome = "ok"
       THEN /\ subscribed' = FALSE
            /\ log' = log
            /\ pc' = "term_disc"
       ELSE /\ subscribed' = subscribed
            /\ log' = log
            /\ pc' = "crashed"
  /\ UNCHANGED <<connected, bamp, bIR, samples_in, callback, verbose, outlet,
                 outletOpen, lastReport, signals, events>>

TermStop(outcome) ==
  /\ pc = "terminate"
  /\ Called("stop_notify")
  /\ IF outcome = "ok"
       THEN /\ subscribed' = FALSE
            /\ log' = log
            /\ pc' = "term_disc"
       ELSE /\ subscribed' = subscribed
            /\ log' = log \cup {"e:terminate"}
            /\ pc' = "del_outlet"
  /\ UNCHANGED <<connected, bamp, bIR, samples_in, callback, verbose, outlet,
                 outletOpen, lastReport, signals, events>>

\* _terminate(): the disconnect call; when it raises, the except clause of
\* terminate()
TermDisc(outcome) ==
  /\ pc = "term_disc"
  /\ Called("disconnect")
  /\ IF outcome = "ok"
       THEN /\ connected' = FALSE
            /\ log' = log
       ELSE /\ connected' = connected
            /\ log' = log \cup {"e:terminate"}
  /\ pc' = "del_outlet"
  /\ UNCHANGED <<subscribed, bamp, bIR, samples_in, callback, verbose, outlet,
                 outletOpen, lastReport, signals, events>>

\* del outlet_bamp; print("terminated")
Finish ==
  /\ pc = "del_outlet"
  /\ outletOpen' = FALSE
  /\ log' = log \cup {"terminated"}
  /\ pc' = "done"
  /\ UNCHANGED <<connected, subscribed, bamp, bIR, samples_in, callback, verbose,
                 outlet, lastReport, calls, signals, events>>

Next ==
  \/ \E o \in Outcomes : Connect(o)
  \/ \E o \in Outcomes : StartNotify(o)
  \/ \E d \in Payloads : Notify(d)
  \/ Tick
  \/ Interrupt
  \/ InterruptTeardown
  \/ \E o \in Outcomes : TermStop(o)
  \/ \E o \in Outcomes : TermDisc(o)
  \/ Finish

Spec == Init /\ [][Next]_vars

(***************************************************************************)
(* Vocabulary of the properties: what the history of events says, computed *)
(* independently of the handler.                                           *)
(***************************************************************************)
RECURSIVE BigEndian(_)
BigEndian(b) ==
  IF b = <<>> THEN 0 ELSE BigEndian(SubSeq(b, 1, Len(b) - 1)) * 256 + b[Len(b)]

IsNotify(e) == e.kind = "notify"
IsTick(e) == e.kind = "tick"
Decodable(e) == IsNotify(e) /\ Len(e.data) >= 4
Short(e) == IsNotify(e) /\ Len(e.data) < 4
Partial(e) == IsNotify(e) /\ Len(e.data) >= 4 /\ Len(e.data) < 8
Full(e) == IsNotify(e) /\ Len(e.data) >= 8

SetMax(S) == CHOOSE x \in S : \A y \in S : y <= x

DecodableIdx == {i \in 1..Len(events) : Decodable(events[i])}
TickIdx == {i \in 1..Len(events) : IsTick(events[i])}

\* position in the outlet of the sample of the decodable event i
Rank(i) == Cardinality({j \in DecodableIdx : j <= i})

\* secondary value in force after the first i events
LastSecondary(i) ==
  LET F == {j \in 1..i : Full(events[j])}
  IN  IF F = {} THEN 0 ELSE BigEndian(SubSeq(events[SetMax(F)].data, 5, 8))

\* number of decodable payloads among events lo+1 .. hi
CountBetween(lo, hi) == Cardinality({j \in DecodableIdx : j > lo /\ j <= hi})

\* index of the last tick among the first i events, 0 when there is none
PrevTick(i) ==
  LET T == {j \in TickIdx : j <= i} IN IF T = {} THEN 0 ELSE SetMax(T)

\* this step appended an event to the history
NewEvent == Len(events') = Len(events) + 1
Newest == events'[Len(events')]

\* C1: a signal that arrives while the session is Streaming leads to a
\* teardown that invokes stop_notify exactly once and disconnect exactly
\* once, whatever the outcome of the teardown calls.
C1_TeardownCallsOnce ==
  (pc = "done" /\ signals = <<"loop">>)
    => (calls["stop_notify"] = 1 /\ calls["disconnect"] = 1)

\* C2: every payload of length >= 4 yields the sample [p, s], p the
\* big-endian uint32 of bytes[0:4] and s the big-endian uint32 of bytes[4:8]
\* of the most recent payload of length >= 8 up to and including this one, or
\* 0 when there was none.
C2_DecodedSamples ==
  \A i \in DecodableIdx :
    /\ Rank(i) <= Len(outlet)
    /\ outlet[Rank(i)] =
         <<BigEndian(SubSeq(events[i].data, 1, 4)), LastSecondary(i)>>

C2_Witness ==
  /\ Len(events) = 3
  /\ Full(events[1]) /\ Partial(events[2]) /\ Partial(events[3])
  /\ Len(outlet) = 3
  /\ outlet[3][1] = 16909060
  /\ outlet[3][2] = 2

\* C3: a payload of length < 4 produces no sample, invokes no callback,
\* prints nothing and leaves primary, secondary and the sample counter as
\* they were.
C3_ShortPayloadIgnored ==
  [][(NewEvent /\ Short(Newest))
       => UNCHANGED <<bamp, bIR, samples_in, outlet, log, callback, lastReport,
                      pc, connected, subscribed, outletOpen, calls>>]_vars

C3_Witness ==
  /\ Len(events) = 3
  /\ Full(events[1]) /\ Short(events[3])
  /\ bIR # 0 /\ samples_in = 2 /\ Len(outlet) = 2

\* C4: the counter holds the number of payloads of length >= 4 delivered
\* since the last tick (since creation when there was none), and the rate
\* reported by the last tick is the number of such payloads delivered
\* between the tick before it and that tick, divided by 5.
C4_CounterAndRate ==
  /\ samples_in = CountBetween(PrevTick(Len(events)), Len(events))
  /\ IF TickIdx = {}
       THEN lastReport = -1
       ELSE LET t == SetMax(TickIdx)
            IN  lastReport * 5 = 1000 * CountBetween(PrevTick(t - 1), t)

C4_Witness ==
  /\ Len(events) = 3
  /\ IsTick(events[1]) /\ Decodable(events[2]) /\ IsTick(events[3])
  /\ lastReport = 200
  /\ samples_in = 0

\* C5: a step that delivers a payload of length >= 4 pushes exactly one
\* sample, the [primary, secondary] just decoded, at the end of the outlet
\* within that same step; no other step pushes, removes or reorders samples.
C5_OnePushPerPayload ==
  [][IF NewEvent /\ Decodable(Newest)
       THEN outlet' = Append(outlet,
                       <<BigEndian(SubSeq(Newest.data, 1, 4)), bIR'>>)
       ELSE outlet' = outlet]_vars

C5_Witness ==
  /\ Len(events) = 3
  /\ \A i \in 1..3 : Decodable(events[i])
  /\ Len(outlet) = 3
  /\ outlet[1] # outlet[2] /\ outlet[2] # outlet[3]

\* C6: start_notify is invoked only after a successful connect; after a
\* failed connect no subscription is attempted and connect is not tried
\* again.
C6_NoSubscribeAfterFailedConnect ==
  ("e:connect" \in log)
    => (calls["start_notify"] = 0 /\ calls["connect"] = 1 /\ ~subscribed)

\* C7 as stated: the process reaches its end only after a signal was
\* received.
C7_ExitOnlyOnSignal == (pc \in ExitPcs) => (signals # <<>>)

\* C7 as amended: the process reaches its end only after a signal was
\* received or after an error raised in the try block of _main (the
\* subscription) was caught and logged there; a failed connect by itself
\* leads on to the subscription attempt, not to the end.
C7_ExitOnSignalOrMainError ==
  /\ (pc \in ExitPcs) => (signals # <<>> \/ "e:main" \in log)
  /\ ("e:connect" \in log /\ signals = <<>>) => calls["connect"] = 1
  /\ ("e:connect" \in log /\ signals = <<>> /\ "e:main" \notin log)
       => pc \in LaunchPcs

C7_Witness ==
  /\ pc = "done"
  /\ signals = <<>>
  /\ "e:main" \in log
  /\ "Connected" \in log

\* C8: an error raised by stop_notify or disconnect is logged and does not
\* leave terminate(): the script goes on to release the outlet and to print
\* 'terminated'; only a signal makes terminate() raise.
C8_TeardownErrorsSwallowed ==
  /\ (pc = "crashed") => (signals # <<>> /\ signals[Len(signals)] \in TeardownPcs)
  /\ ("e:terminate" \in log) => (pc \in {"del_outlet", "done"})
  /\ (pc = "del_outlet" /\ calls["disconnect"] = 1 /\ connected)
       => ("e:terminate" \in log)
  /\ (pc = "del_outlet" /\ calls["disconnect"] = 0) => ("e:terminate" \in log)
  /\ (pc = "done") => (~outletOpen /\ "terminated" \in log)

C8_Witness ==
  /\ pc = "done"
  /\ "e:terminate" \in log
  /\ calls["stop_notify"] = 1 /\ calls["disconnect"] = 1
  /\ ~outletOpen /\ "terminated" \in log

\* C9: no execution reaches the end of the script with the outlet still
\* held or without disconnect having been invoked on a connection that was
\* established.
C9_ReleasedBeforeExit ==
  (pc = "done")
    => (~outletOpen /\ ("Connected" \in log => calls["disconnect"] >= 1))

\* C10: a diagnostic tick changes only the sample counter (and what it
\* prints): primary, secondary, callback, subscription, connection and
\* outlet stay as they are, so a payload of length in [4,8) delivered right
\* after a tick carries the secondary value observed before the tick.
C10_CarryOver ==
  \A i \in TickIdx :
    (i < Len(events) /\ Partial(events[i + 1]) /\ Rank(i + 1) <= Len(outlet))
      => outlet[Rank(i + 1)][2] = LastSecondary(i - 1)

C10_TickFrame ==
  /\ [][(NewEvent /\ IsTick(Newest))
         => UNCHANGED <<bamp, bIR, callback, subscribed, connected, outlet,
                        outletOpen, pc, calls>>]_vars
  /\ []C10_CarryOver

C10_Witness ==
  /\ Len(events) = 3
  /\ Full(events[1]) /\ IsTick(events[2]) /\ Partial(events[3])
  /\ Len(outlet) = 2
  /\ outlet[2][2] = outlet[1][2]
  /\ outlet[2][2] # 0

TypeOK ==
  /\ pc \in LaunchPcs \cup TeardownPcs \cup ExitPcs \cup {"del_outlet"}
  /\ connected \in BOOLEAN /\ subscribed \in BOOLEAN /\ outletOpen \in BOOLEAN
  /\ bamp \in Nat /\ bIR \in Nat /\ samples_in \in Nat
  /\ Len(events) <= MaxEvents
====
